---- MODULE Spec2Model ----
(***************************************************************************)
(* Model of 2026-season.py: the poster of the 2026 Formula 1 calendar.     *)
(*                                                                         *)
(* Lengths are exact integers: one PDF point is 4200 model units, so that  *)
(* every hundredth of an inch and every division the layout makes (by 2,   *)
(* 3, 4, 6 and 7) is exact.  The script computes the same quantities in    *)
(* binary floating point; the model leaves the rounding out.               *)
(***************************************************************************)
EXTENDS Integers, Sequences, FiniteSets, TLC

VARIABLES
    race_sundays,   \* the event table, a sequence of <<month, day, name>> in dict order
    flag_cache,     \* _flag_cache: country code -> handle (None is 0)
    disk,           \* flags/<cc>.png: "none" (no file), "good" (decodable), "bad" (not decodable)
    nextHandle,     \* identity of the next ImageReader object created
    run,            \* number of the process run (the in-memory cache lives for one run)
    faults,         \* failures the environment has injected so far
    lastReq,        \* what the last get_flag_image call did
    firstResult,    \* per code, the result of the first request of this run
    netFetches,     \* per code, the urlopen calls of this run
    failedIn,       \* per code, the run whose fetch failed with none succeeding since (0: none)
    pc,             \* position of make_poster
    r, col, month,  \* the loop variables of make_poster
    blocks,         \* the month blocks drawn so far
    lines,          \* the event lines drawn so far
    races,          \* draw_month: the events of the month not yet listed
    list_y_top,     \* draw_month: baseline of the next event line
    pages           \* pages shown

vars == <<race_sundays, flag_cache, disk, nextHandle, run, faults, lastReq,
          firstResult, netFetches, failedIn, pc, r, col, month, blocks, lines,
          races, list_y_top, pages>>

flagVars == <<flag_cache, disk, nextHandle, faults, lastReq, firstResult, netFetches,
              failedIn>>
posterVars == <<pc, r, col, month, blocks, lines, races, list_y_top, pages>>

---------------------------------------------------------------------------
(* Bounds of the model *)

MaxFaults == 1      \* failures the environment may inject in one poster run
NumCodes == 2       \* country codes requested in the flag-provider specification
MaxRuns == 2        \* process runs in the flag-provider specification

---------------------------------------------------------------------------
(* Static data *)

RaceTable ==
    << <<3, 8, "AUSTRALIA">>, <<3, 15, "CHINA">>, <<3, 29, "JAPAN">>,
       <<4, 12, "BAHRAIN">>, <<4, 19, "SAUDI ARABIA">>,
       <<5, 3, "MIAMI">>, <<5, 24, "CANADA">>,
       <<6, 7, "MONACO">>, <<6, 14, "BARCELONA">>, <<6, 28, "AUSTRIA">>,
       <<7, 5, "GREAT BRITAIN">>, <<7, 19, "BELGIUM">>, <<7, 26, "HUNGARY">>,
       <<8, 23, "NETHERLANDS">>,
       <<9, 6, "ITALY">>, <<9, 13, "MADRID">>, <<9, 26, "AZERBAIJAN">>,
       <<10, 11, "SINGAPORE">>, <<10, 25, "AUSTIN">>,
       <<11, 1, "MEXICO">>, <<11, 8, "BRAZIL">>, <<11, 21, "LAS VEGAS">>,
       <<11, 29, "QATAR">>,
       <<12, 6, "ABU DHABI">> >>

COUNTRY_FLAG_CODES ==
    ("AUSTRALIA" :> "au") @@ ("CHINA" :> "cn") @@ ("JAPAN" :> "jp") @@
    ("BAHRAIN" :> "bh") @@ ("SAUDI ARABIA" :> "sa") @@ ("MIAMI" :> "us") @@
    ("CANADA" :> "ca") @@ ("MONACO" :> "mc") @@ ("BARCELONA" :> "es") @@
    ("SPAIN (BARCELONA)" :> "es") @@ ("AUSTRIA" :> "at") @@
    ("GREAT BRITAIN" :> "gb") @@ ("BELGIUM" :> "be") @@ ("HUNGARY" :> "hu") @@
    ("NETHERLANDS" :> "nl") @@ ("ITALY" :> "it") @@ ("MADRID" :> "es") @@
    ("AZERBAIJAN" :> "az") @@ ("SINGAPORE" :> "sg") @@ ("AUSTIN" :> "us") @@
    ("MEXICO" :> "mx") @@ ("BRAZIL" :> "br") @@ ("LAS VEGAS" :> "us") @@
    ("QATAR" :> "qa") @@ ("ABU DHABI" :> "ae")

\* COUNTRY_FLAG_CODES.get(name): the code, or "" (Python's None) for an unknown name
FlagCodeOf(name) ==
    IF name \in DOMAIN COUNTRY_FLAG_CODES THEN COUNTRY_FLAG_CODES[name] ELSE ""

Codes == {COUNTRY_FLAG_CODES[n] : n \in DOMAIN COUNTRY_FLAG_CODES}

None == 0

---------------------------------------------------------------------------
(* Calendar arithmetic: calendar.Calendar(firstweekday=6), datetime.date *)

YEAR == 2026

IsLeap(y) == (y % 4 = 0) /\ ((y % 100 # 0) \/ (y % 400 = 0))

DaysInMonth(y, m) ==
    IF m = 2 THEN (IF IsLeap(y) THEN 29 ELSE 28)
    ELSE IF m \in {4, 6, 9, 11} THEN 30 ELSE 31

RECURSIVE DaysBeforeMonth(_, _)
DaysBeforeMonth(y, m) ==
    IF m = 1 THEN 0 ELSE DaysBeforeMonth(y, m - 1) + DaysInMonth(y, m - 1)

DaysBeforeYear(y) ==
    (y - 1) * 365 + ((y - 1) \div 4) - ((y - 1) \div 100) + ((y - 1) \div 400)

\* date(y, m, d).toordinal()
ToOrdinal(y, m, d) == DaysBeforeYear(y) + DaysBeforeMonth(y, m) + d

\* date(y, m, d).weekday(): Monday is 0, Sunday is 6
Weekday(y, m, d) == (ToOrdinal(y, m, d) + 6) % 7

\* date.fromordinal(n), as <<year, month, day>>
FromOrdinal(n) ==
    LET y == CHOOSE yy \in (YEAR - 1)..(YEAR + 1) :
                 DaysBeforeYear(yy) < n /\ n <= DaysBeforeYear(yy + 1)
        m == CHOOSE mm \in 1..12 :
                 /\ DaysBeforeMonth(y, mm) < n - DaysBeforeYear(y)
                 /\ n - DaysBeforeYear(y) <= DaysBeforeMonth(y, mm) + DaysInMonth(y, mm)
    IN  <<y, m, n - DaysBeforeYear(y) - DaysBeforeMonth(y, m)>>

\* date(y, m, d) - timedelta(days = k)
DateMinus(y, m, d, k) == FromOrdinal(ToOrdinal(y, m, d) - k)

FIRSTWEEKDAY == 6

\* Calendar.itermonthdays: leading zeros, the days, trailing zeros
IterMonthDays(fwd, y, m) ==
    LET day1 == Weekday(y, m, 1)
        ndays == DaysInMonth(y, m)
        before == (day1 - fwd) % 7
        after == (fwd - day1 - ndays) % 7
    IN  [i \in 1..(before + ndays + after) |->
            IF i <= before \/ i > before + ndays THEN 0 ELSE i - before]

\* Calendar.monthdayscalendar: the days of the month in rows of 7
MonthDaysCalendar(fwd, y, m) ==
    LET days == IterMonthDays(fwd, y, m)
    IN  [w \in 1..(Len(days) \div 7) |-> [c \in 1..7 |-> days[(w - 1) * 7 + c]]]

\* the slip of leaving the calendar's default first weekday, Monday
month_weeks_MondayFirst(m) == MonthDaysCalendar(0, YEAR, m)

month_weeks(m) == MonthDaysCalendar(FIRSTWEEKDAY, YEAR, m)

ZeroRow == [c \in 1..7 |-> 0]

\* draw_month: while len(weeks) < 6: weeks.append([0] * 7)
RECURSIVE PadWeeks(_)
PadWeeks(weeks) ==
    IF Len(weeks) < 6 THEN PadWeeks(Append(weeks, ZeroRow)) ELSE weeks

---------------------------------------------------------------------------
(* get_flag_image *)

\* What the environment does to one request that reaches the network: the
\* fetch fails or returns decodable ("good") or undecodable ("bad") bytes; the
\* write of flags/<cc>.png succeeds, fails leaving the disk as it was, or
\* fails having truncated the file ("partial").
Env == [net : {"fail", "good", "bad"}, write : {"ok", "fail", "partial"}]

NoFault == [net |-> "good", write |-> "ok"]

EmptyCache == [c \in {} |-> None]

\* the slip of not recording a failure: None is never cached
CachePut_DropNone(cache, cc, v) == IF v = None THEN cache ELSE (cc :> v) @@ cache

\* _flag_cache[cc] = v
CachePut(cache, cc, v) == (cc :> v) @@ cache

\* the slip of swallowing a failed write of the file: the bytes are decoded
\* all the same
FetchFlag_IgnoreWriteError(cache, dsk, nh, cc, e, ops, failed) ==
    IF e.net = "fail"
    THEN [cache |-> CachePut(cache, cc, None), disk |-> dsk, nextHandle |-> nh,
          result |-> None, ops |-> ops \o <<"urlopen">>,
          failed |-> failed \cup {"urlopen"}, net |-> "fail"]
    ELSE LET d2 == IF e.write = "fail" THEN dsk
                   ELSE IF e.write = "partial" THEN [dsk EXCEPT ![cc] = "bad"]
                   ELSE [dsk EXCEPT ![cc] = e.net]
             f2 == IF e.write # "ok" THEN failed \cup {"write"} ELSE failed
         IN  IF e.net = "bad"
             THEN [cache |-> CachePut(cache, cc, None), disk |-> d2, nextHandle |-> nh,
                   result |-> None, ops |-> ops \o <<"urlopen", "write", "decode">>,
                   failed |-> f2 \cup {"decode"}, net |-> "ok"]
             ELSE [cache |-> CachePut(cache, cc, nh), disk |-> d2, nextHandle |-> nh + 1,
                   result |-> nh, ops |-> ops \o <<"urlopen", "write", "decode">>,
                   failed |-> f2, net |-> "ok"]

\* lines 87-96: fetch from the URL, write the file, decode the bytes.
\* ops lists the calls made, failed the calls that raised.
FetchFlag(cache, dsk, nh, cc, e, ops, failed) ==
    IF e.net = "fail"
    THEN [cache |-> CachePut(cache, cc, None), disk |-> dsk, nextHandle |-> nh,
          result |-> None, ops |-> ops \o <<"urlopen">>,
          failed |-> failed \cup {"urlopen"}, net |-> "fail"]
    ELSE IF e.write # "ok"
    THEN [cache |-> CachePut(cache, cc, None),
          disk |-> IF e.write = "partial" THEN [dsk EXCEPT ![cc] = "bad"] ELSE dsk,
          nextHandle |-> nh, result |-> None,
          ops |-> ops \o <<"urlopen", "write">>,
          failed |-> failed \cup {"write"}, net |-> "ok"]
    ELSE IF e.net = "bad"
    THEN [cache |-> CachePut(cache, cc, None), disk |-> [dsk EXCEPT ![cc] = "bad"],
          nextHandle |-> nh, result |-> None,
          ops |-> ops \o <<"urlopen", "write", "decode">>,
          failed |-> failed \cup {"decode"}, net |-> "ok"]
    ELSE [cache |-> CachePut(cache, cc, nh), disk |-> [dsk EXCEPT ![cc] = "good"],
          nextHandle |-> nh + 1, result |-> nh,
          ops |-> ops \o <<"urlopen", "write", "decode">>,
          failed |-> failed, net |-> "ok"]

\* the slip of fetching without looking at the local file
LocalFlag_NetworkFirst(cache, dsk, nh, cc, e) ==
    FetchFlag(cache, dsk, nh, cc, e, <<>>, {})

\* lines 78-85: the local file, when it exists and decodes
LocalFlag(cache, dsk, nh, cc, e) ==
    IF dsk[cc] = "none"
    THEN FetchFlag(cache, dsk, nh, cc, e, <<"exists">>, {})
    ELSE IF dsk[cc] = "good"
    THEN [cache |-> CachePut(cache, cc, nh), disk |-> dsk, nextHandle |-> nh + 1,
          result |-> nh, ops |-> <<"exists", "read">>, failed |-> {}, net |-> "none"]
    ELSE FetchFlag(cache, dsk, nh, cc, e, <<"exists", "read">>, {"read"})

\* get_flag_image(cc), given what the environment does
get_flag_image(cache, dsk, nh, cc, e) ==
    IF cc \in DOMAIN cache
    THEN [cache |-> cache, disk |-> dsk, nextHandle |-> nh, result |-> cache[cc],
          ops |-> <<>>, failed |-> {}, net |-> "none"]
    ELSE LocalFlag(cache, dsk, nh, cc, e)

Calls(ops) == {ops[i] : i \in DOMAIN ops}

\* Whether the environment injected a failure into the request
Injected(res, e) == "urlopen" \in Calls(res.ops) /\ e # NoFault

\* One call of get_flag_image and the bookkeeping about it; counted says
\* whether an injected failure counts against the budget of the poster run
FlagCall(cc, e, counted) ==
    LET res == get_flag_image(flag_cache, disk, nextHandle, cc, e)
    IN  /\ flag_cache' = res.cache
        /\ disk' = res.disk
        /\ nextHandle' = res.nextHandle
        /\ faults' = IF counted /\ Injected(res, e) THEN faults + 1 ELSE faults
        /\ lastReq' = [cc |-> cc, result |-> res.result, ops |-> res.ops,
                       failed |-> res.failed, net |-> res.net,
                       hit |-> cc \in DOMAIN flag_cache,
                       repeat |-> cc \in DOMAIN firstResult,
                       diskBefore |-> disk[cc], failedBefore |-> failedIn[cc],
                       run |-> run]
        /\ firstResult' = IF cc \in DOMAIN firstResult THEN firstResult
                          ELSE (cc :> res.result) @@ firstResult
        /\ netFetches' = IF "urlopen" \in Calls(res.ops)
                         THEN [netFetches EXCEPT ![cc] = @ + 1]
                         ELSE netFetches
        /\ failedIn' = IF res.net = "fail" THEN [failedIn EXCEPT ![cc] = run]
                       ELSE IF res.net = "ok" THEN [failedIn EXCEPT ![cc] = 0]
                       ELSE failedIn

---------------------------------------------------------------------------
(* Lengths *)

pt == 4200                         \* one PDF point, in model units
inch == 72 * pt                    \* reportlab.lib.units.inch
Hundredths(n) == (n * inch) \div 100   \* 0.nn * inch

WIDTH == 18 * inch
HEIGHT == 24 * inch

(* make_poster *)
margin == Hundredths(75)
header_y == HEIGHT - margin
poster_grid_top == header_y - 80 * pt
poster_grid_bottom == margin
poster_grid_h == poster_grid_top - poster_grid_bottom
cols == 3
rows == 4
gap_x == Hundredths(35)
gap_y == Hundredths(40)
cell_w == (WIDTH - 2 * margin - (cols - 1) * gap_x) \div cols
cell_h == (poster_grid_h - (rows - 1) * gap_y) \div rows

BlockX(c) == margin + c * (cell_w + gap_x)
BlockY(rr) == poster_grid_top - rr * (cell_h + gap_y)

(* draw_month(c, x, y, w, h, month, theme) *)
pad == Hundredths(12)
header_h == Hundredths(32)
list_h == Hundredths(72)
grid_top(y) == y - pad - header_h
grid_left(x) == x + pad
grid_w(w) == w - 2 * pad
grid_h(h) == h - (pad + header_h + list_h + pad)
weekday_row_h == Hundredths(11)
day_grid_h(h) == grid_h(h) - weekday_row_h
day_row_h(h) == day_grid_h(h) \div 6
col_w(w) == grid_w(w) \div 7
grid_bottom(y, h) == grid_top(y) - weekday_row_h - 6 * day_row_h(h)

gap_below_grid == Hundredths(14)
ListTop(y, h) == grid_bottom(y, h) - gap_below_grid
flag_w == 14 * pt
flag_h == 10 * pt
text_gap == 4 * pt
text_indent(x) == grid_left(x) + flag_w + text_gap
line_h_FlagWidth == flag_w             \* the slip of stepping by the flag's width
line_h == 10 * pt
flag_drop == 2 * pt
FlagY(ly) == ly - flag_drop

---------------------------------------------------------------------------
(* draw_month: the underline set, the day cells, the event list *)

\* the set the code would build if it left out the days of another month
WeekendPairs_SameMonthOnly(m, d) ==
    {<<m, dd>> : dd \in {x \in {d - 2, d - 1, d} : x >= 1}}

\* lines 176-181: the pairs one event adds, each with the month its date falls in
WeekendPairs(m, d) ==
    LET fri == DateMinus(YEAR, m, d, 2)
        sat == DateMinus(YEAR, m, d, 1)
    IN  {<<fri[2], fri[3]>>, <<sat[2], sat[3]>>, <<m, d>>}

\* lines 172-181: underline_days of a month
UnderlineDays(table, mon) ==
    UNION {WeekendPairs(table[i][1], table[i][2]) :
              i \in {j \in DOMAIN table : table[j][1] = mon}}

\* the slip of looking the day up without its month
IsUnderlined_AnyMonth(mon, day, underline_days) ==
    \E p \in underline_days : p[2] = day

\* line 204: (month, day) in underline_days
IsUnderlined(mon, day, underline_days) == <<mon, day>> \in underline_days

\* lines 188-211: the days drawn with an underline
UnderlinedCells(mon, weeks, underline_days) ==
    {weeks[w][c] : <<w, c>> \in
        {p \in (1..6) \X (1..7) :
            weeks[p[1]][p[2]] # 0 /\ IsUnderlined(mon, weeks[p[1]][p[2]], underline_days)}}

\* line 220: the (day, name) pairs of a month, in the order of the table
RacesOf(table, mon) ==
    LET sel == SelectSeq(table, LAMBDA t : t[1] = mon)
    IN  [i \in 1..Len(sel) |-> <<sel[i][2], sel[i][3]>>]

RECURSIVE InsertByDay(_, _)
InsertByDay(sorted, t) ==
    IF sorted = <<>> THEN <<t>>
    ELSE IF t[1] < Head(sorted)[1] THEN <<t>> \o sorted
    ELSE <<Head(sorted)>> \o InsertByDay(Tail(sorted), t)

\* line 221: races.sort(key=lambda t: t[0]), a stable sort
RECURSIVE SortByDay(_)
SortByDay(rs) ==
    IF rs = <<>> THEN <<>>
    ELSE InsertByDay(SortByDay(SubSeq(rs, 1, Len(rs) - 1)), rs[Len(rs)])

\* the slip of leaving the list in the order of the table
SortedRaces_NoSort(table, mon) == RacesOf(table, mon)

\* lines 220-221: the events of a month, sorted by day
SortedRaces(table, mon) == SortByDay(RacesOf(table, mon))

\* line 231: f"{d:02d} - {name}"
EventText(d, name) == <<d \div 10, d % 10, name>>

\* lines 166-211: the block of a month at grid position (rr, c)
MonthBlock(table, mon, rr, c) ==
    LET raw == month_weeks(mon)
        weeks == PadWeeks(raw)
        ud == UnderlineDays(table, mon)
    IN  [month |-> mon, r |-> rr, col |-> c, x |-> BlockX(c), y |-> BlockY(rr),
         w |-> cell_w, h |-> cell_h, rawlen |-> Len(raw), weeks |-> weeks,
         underline_days |-> ud, underlined |-> UnderlinedCells(mon, weeks, ud)]

\* lines 223-232: one event line, img being what get_flag_image returned
\* (None also stands for a name without a country code)
RaceLine(mon, x, ly, race, img) ==
    [month |-> mon, day |-> race[1], text |-> EventText(race[1], race[2]),
     x |-> text_indent(x), y |-> ly, img |-> img,
     flag_x |-> IF img # None THEN grid_left(x) ELSE 0,
     flag_y |-> IF img # None THEN FlagY(ly) ELSE 0]

\* the slip of stepping down only when a flag was drawn
NextLineY_OnlyWithFlag(ly, img) == IF img # None THEN ly - line_h ELSE ly

\* line 232: list_y_top -= line_h
NextLineY(ly, img) == ly - line_h

---------------------------------------------------------------------------
(* make_poster, step by step *)

NoReq == [cc |-> "", result |-> None, ops |-> <<>>, failed |-> {}, net |-> "none",
          hit |-> FALSE, repeat |-> FALSE, diskBefore |-> "none", failedBefore |-> 0,
          run |-> 0]

InitFlags ==
    /\ flag_cache = EmptyCache
    /\ nextHandle = 1
    /\ run = 1
    /\ faults = 0
    /\ lastReq = NoReq
    /\ firstResult = EmptyCache
    /\ netFetches = [c \in Codes |-> 0]
    /\ failedIn = [c \in Codes |-> 0]

InitPoster ==
    /\ pc = "start"
    /\ r = 0
    /\ col = 0
    /\ month = 0
    /\ blocks = <<>>
    /\ lines = <<>>
    /\ races = <<>>
    /\ list_y_top = 0
    /\ pages = 0

\* The flags directory as earlier runs can have left it: never filled, filled
\* with decodable files, or filled with undecodable ones
Init ==
    /\ race_sundays = RaceTable
    /\ disk \in {[c \in Codes |-> s] : s \in {"none", "good", "bad"}}
    /\ InitFlags
    /\ InitPoster

\* lines 236-260: the canvas, the background, the title, month = 1
BeginPoster ==
    /\ pc = "start"
    /\ pc' = "loop"
    /\ r' = 0 /\ col' = 0 /\ month' = 1
    /\ UNCHANGED <<race_sundays, flagVars, run, blocks, lines, races, list_y_top, pages>>

\* lines 261-270 and 116-222: the outline of the next block, its grid and its days
DrawMonthGrid ==
    /\ pc = "loop"
    /\ r < rows
    /\ blocks' = Append(blocks, MonthBlock(race_sundays, month, r, col))
    /\ races' = SortedRaces(race_sundays, month)
    /\ list_y_top' = ListTop(BlockY(r), cell_h)
    /\ pc' = "list"
    /\ UNCHANGED <<race_sundays, flagVars, run, r, col, month, lines, pages>>

\* lines 223-232: one pass of the loop over races
DrawRaceLine ==
    /\ pc = "list"
    /\ races # <<>>
    /\ LET race == Head(races)
           cc == FlagCodeOf(race[2])
       IN  /\ IF cc # ""
              THEN \E e \in Env : FlagCall(cc, e, TRUE) /\ faults' <= MaxFaults
              ELSE UNCHANGED flagVars
           /\ LET img == IF cc # "" THEN lastReq'.result ELSE None
              IN  /\ lines' = Append(lines, RaceLine(month, BlockX(col), list_y_top, race, img))
                  /\ list_y_top' = NextLineY(list_y_top, img)
    /\ races' = Tail(races)
    /\ UNCHANGED <<race_sundays, run, pc, r, col, month, blocks, pages>>

\* lines 261-262 and 271: month += 1 and the next cell of the 3 x 4 grid
EndMonth ==
    /\ pc = "list"
    /\ races = <<>>
    /\ month' = month + 1
    /\ col' = IF col + 1 < cols THEN col + 1 ELSE 0
    /\ r' = IF col + 1 < cols THEN r ELSE r + 1
    /\ pc' = "loop"
    /\ UNCHANGED <<race_sundays, flagVars, run, blocks, lines, races, list_y_top, pages>>

\* lines 273-274: showPage and save
FinishPoster ==
    /\ pc = "loop"
    /\ r = rows
    /\ pages' = pages + 1
    /\ pc' = "done"
    /\ UNCHANGED <<race_sundays, flagVars, run, r, col, month, blocks, lines, races,
                   list_y_top>>

Next ==
    \/ BeginPoster
    \/ DrawMonthGrid
    \/ DrawRaceLine
    \/ EndMonth
    \/ FinishPoster

Spec == Init /\ [][Next]_vars

---------------------------------------------------------------------------
(* draw_month over another event table: days out of order in March, five
   events in May, one of them with a name that has no country code, and an
   event on the first day of a month *)

AltTable ==
    << <<3, 8, "AUSTRALIA">>, <<3, 29, "JAPAN">>, <<3, 15, "CHINA">>,
       <<5, 31, "MONACO">>, <<5, 3, "MIAMI">>, <<5, 10, "IMOLA">>,
       <<5, 24, "CANADA">>, <<5, 17, "BARCELONA">>,
       <<11, 1, "MEXICO">> >>

InitTable ==
    /\ race_sundays \in {RaceTable, AltTable}
    /\ disk \in {[c \in Codes |-> s] : s \in {"none", "good", "bad"}}
    /\ InitFlags
    /\ InitPoster

SpecTable == InitTable /\ [][Next]_vars

---------------------------------------------------------------------------
(* get_flag_image under any sequence of requests, over several process runs *)

ReqCodes == {FlagCodeOf(RaceTable[i][3]) : i \in 1..NumCodes}

InitFlagSpec ==
    /\ race_sundays = RaceTable
    /\ disk = [c \in Codes |-> "none"]
    /\ InitFlags
    /\ InitPoster

\* a caller asks for the flag of cc
Request ==
    /\ \E cc \in ReqCodes : \E e \in Env : FlagCall(cc, e, FALSE)
    /\ UNCHANGED <<race_sundays, run, posterVars>>

\* the process ends and a later one starts: _flag_cache is empty again (line 70),
\* the flags directory is as it was left
NewRun ==
    /\ run < MaxRuns
    /\ run' = run + 1
    /\ flag_cache' = EmptyCache
    /\ firstResult' = EmptyCache
    /\ netFetches' = [c \in Codes |-> 0]
    /\ UNCHANGED <<race_sundays, disk, nextHandle, faults, lastReq, failedIn, posterVars>>

NextFlag ==
    \/ Request
    \/ NewRun

FlagSpec == InitFlagSpec /\ [][NextFlag]_vars

---------------------------------------------------------------------------
(* The claims about the calendar and the underlines *)

\* The days of the table's events in month mon
EventDays(mon) == {race_sundays[i][2] : i \in {j \in DOMAIN race_sundays : race_sundays[j][1] = mon}}

\* The lengths of the months of 2026, from the calendar
MonthLength == <<31, 28, 31, 30, 31, 30, 31, 31, 30, 31, 30, 31>>

Block(mon) == blocks[CHOOSE i \in DOMAIN blocks : blocks[i].month = mon]

Drawn(mon) == \E i \in DOMAIN blocks : blocks[i].month = mon

\* C1: every (month, day) key of race_sundays is a Sunday of 2026: whenever
\* draw_month has computed the weekends of a month, each event date it used
\* as the Sunday has weekday 6.
C1_EveryKeyIsASunday ==
    \A i \in DOMAIN blocks :
        \A d \in EventDays(blocks[i].month) : Weekday(YEAR, blocks[i].month, d) = 6

\* C2: the day matrix of every month drawn has 6 rows of 7 columns, Sunday in
\* column 0, its non-zero entries are the days 1..N of the month, each once,
\* and month_weeks gave at most 6 rows before the padding.
C2_DayMatrix ==
    \A i \in DOMAIN blocks :
        LET b == blocks[i]
            N == MonthLength[b.month]
            cells == {p \in (1..6) \X (1..7) : b.weeks[p[1]][p[2]] # 0}
            first == Weekday(YEAR, b.month, 1)   \* day d falls first + d - 1 days on
        IN  /\ b.rawlen <= 6
            /\ Len(b.weeks) = 6
            /\ \A w \in 1..6 : Len(b.weeks[w]) = 7
            /\ {b.weeks[p[1]][p[2]] : p \in cells} = 1..N
            /\ Cardinality(cells) = N
            /\ \A p \in cells :
                  /\ b.weeks[p[1]][p[2]] \in 1..N
                  /\ (first + b.weeks[p[1]][p[2]] - 1 + 1) % 7 = p[2] - 1

\* C2 witness: the poster is complete, with a month month_weeks gave 4 rows
\* for (February) padded to 6 and a month that needs all 6 rows
C2_Witness ==
    /\ pc = "done"
    /\ Len(blocks) = 12
    /\ \E i \in DOMAIN blocks : blocks[i].rawlen = 4 /\ Len(blocks[i].weeks) = 6
    /\ \E i \in DOMAIN blocks : blocks[i].rawlen = 6

\* C3 as stated: the underline set of month M holds no pair of another month.
C3_NoPairOfAnotherMonth ==
    \A i \in DOMAIN blocks :
        \A p \in blocks[i].underline_days : p[1] = blocks[i].month

\* The pair for the day k days before day d of month mon: in mon, or in the
\* month before it
PairBefore(mon, d, k) ==
    IF d - k >= 1 THEN <<mon, d - k>>
    ELSE LET pm == IF mon = 1 THEN 12 ELSE mon - 1
         IN  <<pm, MonthLength[pm] + d - k>>

\* C3, amended: the underline set of month M is exactly, for every event day D
\* of M, the pairs (M, D), (M, D-1) and (M, D-2) that fall inside M and, for
\* a preceding day that falls in the previous month, the pair of that day
\* under the previous month's number: that pair is added, not left out.
C3_UnderlineSet ==
    \A i \in DOMAIN blocks :
        LET b == blocks[i]
        IN  b.underline_days =
                {PairBefore(b.month, d, k) : <<d, k>> \in EventDays(b.month) \X (0..2)}

\* C3 witness: November is drawn; its event on the 1st put October 30 and 31
\* into November's set
C3_Witness ==
    /\ Drawn(11)
    /\ 1 \in EventDays(11)
    /\ {<<10, 30>>, <<10, 31>>, <<11, 1>>} \subseteq Block(11).underline_days

\* C4: the underlined cells of the block of month M are exactly the days d of
\* M with an event of M 0, 1 or 2 days after d; so no day is underlined on
\* account of an event of the next month, and a month without events has no
\* underlined cell.
C4_UnderlinedCells ==
    \A i \in DOMAIN blocks :
        LET b == blocks[i]
            ev == EventDays(b.month)
        IN  b.underlined =
                {d \in 1..MonthLength[b.month] : \E e \in ev : e - d \in 0..2}

\* C4 witness: October, November and a month without events are drawn;
\* November's event on the 1st underlines the 1st alone, and October 30 and
\* 31 are not underlined
C4_Witness ==
    /\ Drawn(1) /\ Drawn(10) /\ Drawn(11)
    /\ EventDays(1) = {} /\ Block(1).underlined = {}
    /\ 1 \in Block(11).underlined
    /\ Block(10).underlined \cap {30, 31} = {}
    /\ Block(10).underlined # {}

---------------------------------------------------------------------------
(* The claims about the page and the event lists *)

\* The indices of the event lines of month mon
LinesOf(mon) == {i \in DOMAIN lines : lines[i].month = mon}

\* The table's entries for day d of month mon
Entries(mon, d) ==
    {j \in DOMAIN race_sundays : race_sundays[j][1] = mon /\ race_sundays[j][2] = d}

\* The bottom edge of the day grid of a block, and of its list area
GridBottomOf(b) == b.y - pad - header_h - (b.h - (pad + header_h + list_h + pad))
ListBottomOf(b) == GridBottomOf(b) - list_h

\* C5: a finished run has drawn 12 blocks, the block at row r and column c
\* being month 3r + c + 1, on one page, and its event lines are the events of
\* the table, each exactly once, inside the block of its month, by ascending
\* day from the top within a block; for the table of the script that is 24 lines.
C5_BlocksAndEventLines ==
    pc = "done" =>
        /\ pages = 1
        /\ Len(blocks) = 12
        /\ \A i \in DOMAIN blocks :
              /\ blocks[i].month = i
              /\ blocks[i].month = 3 * blocks[i].r + blocks[i].col + 1
              /\ blocks[i].r \in 0..3 /\ blocks[i].col \in 0..2
        /\ Len(lines) = Len(race_sundays)
        /\ race_sundays = RaceTable => Len(lines) = 24
        /\ \A j \in DOMAIN race_sundays :
              Cardinality({i \in DOMAIN lines :
                  /\ lines[i].month = race_sundays[j][1]
                  /\ lines[i].day = race_sundays[j][2]
                  /\ lines[i].text[3] = race_sundays[j][3]}) = 1
        /\ \A i \in DOMAIN lines :
              LET b == blocks[lines[i].month]
              IN  /\ b.x < lines[i].x /\ lines[i].x < b.x + b.w
                  /\ b.y - b.h < lines[i].y /\ lines[i].y < b.y
        /\ \A i, j \in DOMAIN lines :
              (i < j /\ lines[i].month = lines[j].month) =>
                  /\ lines[i].day < lines[j].day
                  /\ lines[i].y > lines[j].y

\* C5 witness: a finished run over a table whose days are not in order
C5_Witness ==
    /\ pc = "done"
    /\ race_sundays = AltTable
    /\ Len(lines) = Len(AltTable)

\* C8: every event line drawn has the text of its event, the indent grid-left
\* + flag width + gap and the baseline one line step below the line before it
\* in the block, whatever came of the flag; the next event line can always be
\* drawn, and the finished run has drawn a line for every event.
C8_TextUnaffectedByFlag ==
    /\ \A i \in DOMAIN lines :
          LET ln == lines[i]
              b == Block(ln.month)
              k == Cardinality({j \in LinesOf(ln.month) : j < i})
          IN  /\ \E j \in Entries(ln.month, ln.day) :
                    ln.text = <<ln.day \div 10, ln.day % 10, race_sundays[j][3]>>
              /\ ln.x = b.x + pad + 14 * pt + 4 * pt
              /\ ln.y = GridBottomOf(b) - gap_below_grid - k * 10 * pt
    /\ (pc = "list" /\ races # <<>>) => ENABLED DrawRaceLine
    /\ pc = "done" => Len(lines) = Len(race_sundays)

\* C8 witness: a finished run with a line whose name has no country code, a
\* line whose flag resolved to no image and a line whose flag was drawn
C8_Witness ==
    /\ pc = "done"
    /\ \E i \in DOMAIN lines : FlagCodeOf(lines[i].text[3]) = "" /\ lines[i].img = None
    /\ \E i \in DOMAIN lines : FlagCodeOf(lines[i].text[3]) # "" /\ lines[i].img = None
    /\ \E i \in DOMAIN lines : lines[i].img # None

\* C10: in a month with at most 4 events every event line has its baseline and
\* its flag rectangle below the bottom edge of the grid and inside the list
\* area, which ends above the bottom edge of the block; no month of the
\* script's table has more than 4 events, and a month without events has no
\* line.
C10_ListFitsFourEvents ==
    /\ \A m \in 1..12 : Cardinality(EventDays(m)) = 0 => LinesOf(m) = {}
    /\ race_sundays = RaceTable => \A m \in 1..12 : Cardinality(EventDays(m)) <= 4
    /\ \A i \in DOMAIN lines :
          LET ln == lines[i]
              b == Block(ln.month)
          IN  Cardinality(EventDays(ln.month)) <= 4 =>
                 /\ ln.y < GridBottomOf(b)
                 /\ ln.y >= ListBottomOf(b)
                 /\ ln.img # None =>
                       /\ ln.flag_y + flag_h < GridBottomOf(b)
                       /\ ln.flag_y >= ListBottomOf(b)
                       /\ ln.flag_x >= b.x /\ ln.flag_x + flag_w <= b.x + b.w
                 /\ ListBottomOf(b) > b.y - b.h

\* C10 witness: the fourth event line of November, with its flag drawn
C10_Witness ==
    /\ race_sundays = RaceTable
    /\ Cardinality(LinesOf(11)) = 4
    /\ \A i \in LinesOf(11) : lines[i].img # None

---------------------------------------------------------------------------
(* The claims about get_flag_image *)

\* C6: a request for a code already requested in this run returns what the
\* first request returned, without touching the disk or the network, and no
\* code is fetched from the network more than once in a run.
C6_SameResultAsFirst ==
    /\ \A c \in Codes : netFetches[c] <= 1
    /\ (lastReq.cc # "" /\ lastReq.run = run) =>
          /\ lastReq.cc \in DOMAIN firstResult
          /\ lastReq.result = firstResult[lastReq.cc]
          /\ lastReq.repeat => lastReq.ops = <<>>

\* C6 witness: a code whose first resolution failed is requested again
C6_Witness ==
    /\ lastReq.cc # "" /\ lastReq.run = run
    /\ lastReq.repeat
    /\ lastReq.result = None
    /\ netFetches[lastReq.cc] = 1

\* C7 as stated: a failure at any stage, the decoding of an existing file
\* included, ends the request with None cached and returned.
C7_AnyFailureEndsUnavailable ==
    (lastReq.cc # "" /\ lastReq.run = run /\ lastReq.failed # {}) =>
        /\ lastReq.result = None
        /\ lastReq.cc \in DOMAIN flag_cache
        /\ flag_cache[lastReq.cc] = None

\* C7, amended: a failure of the network fetch, of the write of the file or
\* of the decoding of the fetched bytes ends the request with None cached and
\* returned; a failure to decode an existing file is followed by the network
\* fetch, whose outcome decides the request.
C7_FetchFailureEndsUnavailable ==
    (lastReq.cc # "" /\ lastReq.run = run) =>
        /\ lastReq.failed \cap {"urlopen", "write", "decode"} # {} =>
              /\ lastReq.result = None
              /\ lastReq.cc \in DOMAIN flag_cache
              /\ flag_cache[lastReq.cc] = None
        /\ "read" \in lastReq.failed => "urlopen" \in Calls(lastReq.ops)
        /\ lastReq.failed \subseteq {"read"} => lastReq.result # None \/ lastReq.hit

\* C7 witness: the write of the file failed after a successful fetch
C7_Witness ==
    /\ lastReq.cc # "" /\ lastReq.run = run
    /\ "write" \in lastReq.failed
    /\ lastReq.result = None
    /\ flag_cache[lastReq.cc] = None

\* The position of call c in the calls of the last request (0: not made)
CallAt(c) ==
    IF c \in Calls(lastReq.ops)
    THEN CHOOSE i \in DOMAIN lastReq.ops : lastReq.ops[i] = c
    ELSE 0

\* C9 as stated: after a failed network fetch there is no file on disk for
\* the code.
C9_FailedFetchLeavesNoFile ==
    (lastReq.cc # "" /\ lastReq.net = "fail") => disk[lastReq.cc] = "none"

\* C9, amended: a request that misses the in-memory cache looks for the file
\* before any network call; the file is written only after a successful fetch
\* of its code; a failed fetch leaves the disk as it was for that code (no
\* file, or the undecodable file already there); and in a later run the
\* first request for that code fetches again.
C9_DiskBeforeNetwork ==
    lastReq.cc # "" =>
        /\ ~lastReq.hit => CallAt("exists") = 1
        /\ lastReq.hit => lastReq.ops = <<>>
        /\ CallAt("urlopen") # 0 => CallAt("exists") < CallAt("urlopen")
        /\ CallAt("write") # 0 =>
              /\ lastReq.net = "ok"
              /\ CallAt("urlopen") # 0 /\ CallAt("urlopen") < CallAt("write")
        /\ disk[lastReq.cc] # lastReq.diskBefore => CallAt("write") # 0
        /\ lastReq.net = "fail" =>
              /\ disk[lastReq.cc] = lastReq.diskBefore
              /\ disk[lastReq.cc] # "good"
        /\ (~lastReq.hit /\ lastReq.failedBefore \in 1..(lastReq.run - 1)) =>
              CallAt("urlopen") # 0

\* C9 witness: the fetch of a code failed in one run, and a later run fetches
\* it again and returns an image
C9_Witness ==
    /\ lastReq.cc # ""
    /\ lastReq.failedBefore \in 1..(lastReq.run - 1)
    /\ lastReq.net = "ok"
    /\ lastReq.result # None
    /\ disk[lastReq.cc] = "good"

====
